---- MODULE Spec2Model ----
(***************************************************************************)
(* Model of src/aws/ecs-shell.py: the task selector (find_task), the       *)
(* container selector (find_container_name), the task-definition fetch     *)
(* (get_task_definition) and the pipeline that main() runs over them.      *)
(*                                                                         *)
(* Python strings are sequences of one-character strings, so that          *)
(* split("/"), sorted() and ", ".join() are computed and not assumed.      *)
(* Times are whole hours; an offset-aware time carries its UTC offset.     *)
(***************************************************************************)
EXTENDS Integers, Sequences, FiniteSets, TLC

VARIABLES
    pc,               \* position of the run
    args,             \* argparse namespace: cluster/service given, task, container
    tasks,            \* the task sequence handed to find_task / fetched by main
    task,             \* what find_task produced (a return or a raise)
    task_definition,  \* what get_task_definition produced
    container_name,   \* what find_container_name produced
    registry,         \* ECS: revision -> container definitions of the family
    handoff,          \* what execute_interactive_command was called with
    calls,            \* the steps main() has invoked, in order
    outcome,          \* what the run printed as it ended
    exit_code         \* process exit status once the run has ended

vars == <<pc, args, tasks, task, task_definition, container_name, registry,
          handoff, calls, outcome, exit_code>>

----------------------------------------------------------------------------
(* Bounds *)

MaxTasks == 3
MaxContainers == 3
MaxDefs == 2
MaxFetched == 2
MaxRevisions == 2

----------------------------------------------------------------------------
(* Python values *)

None == [none |-> TRUE]
Str(s) == [str |-> s]
IsNone(v) == "none" \in DOMAIN v

\* Mutant of Truthy: the test "is not None", which an empty string passes.
Truthy_NotNone(v) == ~IsNone(v)

\* Python truthiness of an Optional[str]: None and "" are falsy.
Truthy(v) == ~IsNone(v) /\ v.str # <<>>

Return(v) == [kind |-> "return", value |-> v]
Raise(exc, msg) == [kind |-> "raise", exc |-> exc, msg |-> msg]
Unset == [kind |-> "unset"]

----------------------------------------------------------------------------
(* Strings *)

\* Code point of a character, for the characters the model uses.
Ord(c) ==
    CASE c = " " -> 32
      [] c = "," -> 44
      [] c = "/" -> 47
      [] c = "1" -> 49
      [] c = "2" -> 50
      [] c = "3" -> 51
      [] c = ":" -> 58
      [] c = "A" -> 65
      [] c = "D" -> 68
      [] c = "a" -> 97
      [] c = "b" -> 98
      [] c = "c" -> 99
      [] c = "d" -> 100
      [] c = "e" -> 101
      [] c = "f" -> 102
      [] c = "p" -> 112
      [] c = "s" -> 115
      [] c = "t" -> 116
      [] c = "w" -> 119
      [] c = "z" -> 122

\* Python's str < str: lexicographic by code point, a proper prefix is smaller.
RECURSIVE StrLess(_, _)
StrLess(a, b) ==
    IF b = <<>> THEN FALSE
    ELSE IF a = <<>> THEN TRUE
    ELSE IF Head(a) # Head(b) THEN Ord(Head(a)) < Ord(Head(b))
    ELSE StrLess(Tail(a), Tail(b))

\* s.split(sep)[-1] for a one-character sep: what follows the last sep.
RECURSIVE LastSegment(_, _)
LastSegment(s, sep) ==
    IF s = <<>> THEN <<>>
    ELSE IF s[Len(s)] = sep THEN <<>>
    ELSE LastSegment(SubSeq(s, 1, Len(s) - 1), sep) \o <<s[Len(s)]>>

\* s.split(sep)[0] for a one-character sep: what precedes the first sep.
RECURSIVE FirstSegment(_, _)
FirstSegment(s, sep) ==
    IF s = <<>> THEN <<>>
    ELSE IF Head(s) = sep THEN <<>>
    ELSE <<Head(s)>> \o FirstSegment(Tail(s), sep)

Contains(s, c) == \E i \in 1..Len(s) : s[i] = c

\* Insert x into the sorted list l after every element that is not greater.
RECURSIVE InsertSorted(_, _)
InsertSorted(x, l) ==
    IF l = <<>> THEN <<x>>
    ELSE IF StrLess(x, Head(l)) THEN <<x>> \o l
    ELSE <<Head(l)>> \o InsertSorted(x, Tail(l))

\* sorted(l) for a list of strings (stable, ascending).
RECURSIVE SortedList(_)
SortedList(l) ==
    IF l = <<>> THEN <<>>
    ELSE InsertSorted(l[Len(l)], SortedList(SubSeq(l, 1, Len(l) - 1)))

\* sorted(S) for a set of strings: sorted() of the set's elements in some order.
RECURSIVE SetToList(_)
SetToList(S) ==
    IF S = {} THEN <<>>
    ELSE LET x == CHOOSE y \in S : TRUE IN <<x>> \o SetToList(S \ {x})

SortedSet(S) == SortedList(SetToList(S))

\* ", ".join(l)
RECURSIVE Join(_)
Join(l) ==
    IF l = <<>> THEN <<>>
    ELSE IF Len(l) = 1 THEN l[1]
    ELSE l[1] \o <<",", " ">> \o Join(Tail(l))

----------------------------------------------------------------------------
(* Timestamps *)

\* A task's startedAt as the API layer may hand it over.
Absent == [shape |-> "absent"]
Datetime(local, offset) == [shape |-> "datetime", local |-> local, tz |-> offset]
IsoString(local, suffix) == [shape |-> "str", parses |-> TRUE, local |-> local, suffix |-> suffix]
BadString == [shape |-> "str", parses |-> FALSE, local |-> 0, suffix |-> ""]
OtherType == [shape |-> "other"]

\* A datetime value: offset-aware (with its UTC offset) or naive.
Aware(local, offset) == [aware |-> TRUE, local |-> local, offset |-> offset]
Naive(local) == [aware |-> FALSE, local |-> local, offset |-> 0]

\* datetime.datetime.min is naive, the year 1.
DatetimeMinHour == 0
DatetimeMin == Naive(DatetimeMinHour)

\* The UTC offset that datetime.fromisoformat reads from the end of the text.
OffsetOf(suffix) == CASE suffix = "+00:00" -> 0 [] suffix = "+01:00" -> 1

\* datetime.fromisoformat(text): ValueError for text it cannot parse, a naive
\* datetime for text with no offset, an aware one otherwise.
FromIsoFormat(s, suffix) ==
    IF ~s.parses THEN Raise("ValueError", [text |-> "Invalid isoformat string"])
    ELSE IF suffix = "" THEN Return(Naive(s.local))
    ELSE Return(Aware(s.local, OffsetOf(suffix)))

get_start_time(t) ==
    LET started_at == t.startedAt IN
    IF started_at.shape = "absent" THEN DatetimeMin
    ELSE IF started_at.shape = "datetime" THEN Aware(started_at.local, started_at.tz)
    ELSE IF started_at.shape = "str" THEN
        LET suffix == IF started_at.suffix = "Z" THEN "+00:00" ELSE started_at.suffix
            parsed == FromIsoFormat(started_at, suffix)
        IN  IF parsed.kind = "raise" THEN DatetimeMin ELSE parsed.value
    ELSE DatetimeMin

\* datetime.__gt__: a naive and an aware datetime do not order (TypeError);
\* aware ones order by UTC instant, naive ones by their fields.
Comparable(a, b) == a.aware = b.aware
DatetimeGt(a, b) ==
    IF a.aware THEN a.local - a.offset > b.local - b.offset
    ELSE a.local > b.local

\* max(ts, key=get_start_time) from element i on, best being the maximum so
\* far: a later element replaces it only when its key is strictly greater.
RECURSIVE MaxByStartTime(_, _, _)
MaxByStartTime(ts, i, best) ==
    IF i > Len(ts) THEN Return(best)
    ELSE IF ~Comparable(get_start_time(ts[i]), get_start_time(best))
        THEN Raise("TypeError", [text |-> "can't compare offset-naive and offset-aware datetimes"])
    ELSE IF DatetimeGt(get_start_time(ts[i]), get_start_time(best))
        THEN MaxByStartTime(ts, i + 1, ts[i])
    ELSE MaxByStartTime(ts, i + 1, best)

----------------------------------------------------------------------------
(* find_task *)

TaskId(t) == LastSegment(t.taskArn, "/")

\* Mutant of FirstWithId: compares the whole ARN, without split("/")[-1].
RECURSIVE FirstWithId_WholeArn(_, _, _)
FirstWithId_WholeArn(ts, task_id, i) ==
    IF i > Len(ts) THEN 0
    ELSE IF ts[i].taskArn = task_id THEN i
    ELSE FirstWithId_WholeArn(ts, task_id, i + 1)

\* The for loop of find_task: the first task whose id is task_id, from i on.
RECURSIVE FirstWithId(_, _, _)
FirstWithId(ts, task_id, i) ==
    IF i > Len(ts) THEN 0
    ELSE IF TaskId(ts[i]) = task_id THEN i
    ELSE FirstWithId(ts, task_id, i + 1)

TaskIds(ts) == [i \in 1..Len(ts) |-> TaskId(ts[i])]

\* Mutant of TaskNotFound: lists the ids in input order, without sorted().
TaskNotFound_Unsorted(ts, task_id) ==
    Raise("ValueError", [text |-> "Task not found. Available tasks:",
                         requested |-> task_id,
                         available |-> Join(TaskIds(ts))])

TaskNotFound(ts, task_id) ==
    Raise("ValueError", [text |-> "Task not found. Available tasks:",
                         requested |-> task_id,
                         available |-> Join(SortedList(TaskIds(ts)))])

find_task(ts, task_id) ==
    IF ts = <<>> THEN Raise("ValueError", [text |-> "No running tasks found"])
    ELSE IF Truthy(task_id) THEN
        LET i == FirstWithId(ts, task_id.str, 1) IN
        IF i # 0 THEN Return(ts[i]) ELSE TaskNotFound(ts, task_id.str)
    ELSE MaxByStartTime(ts, 2, ts[1])

----------------------------------------------------------------------------
(* find_container_name *)

\* dict.get(key, default)
GetOr(d, key, default) == IF key \in DOMAIN d THEN d[key] ELSE default

ContainerNames(containers) == { containers[i].name : i \in 1..Len(containers) }

ContainerNotFound(specified_container, container_names) ==
    Raise("ValueError", [text |-> "Container not found in task. Available containers:",
                         requested |-> specified_container,
                         available |-> Join(SortedSet(container_names))])

CannotDetermine(container_names) ==
    Raise("ValueError", [text |-> "Container name must be specified with -c",
                         available |-> Join(SortedSet(container_names))])

\* Mutant of EssentialContainers: every name flagged essential, in the task or not.
EssentialContainers_NotIntersected(td, container_names) ==
    LET defs == GetOr(td, "containerDefinitions", <<>>) IN
    { defs[i].name : i \in { j \in 1..Len(defs) : GetOr(defs[j], "essential", FALSE) } }

\* The names the task definition flags essential that are also in the task.
EssentialContainers(td, container_names) ==
    LET defs == GetOr(td, "containerDefinitions", <<>>) IN
    { defs[i].name : i \in { j \in 1..Len(defs) :
        GetOr(defs[j], "essential", FALSE) /\ defs[j].name \in container_names } }

\* Mutant of AutomaticContainer: no shortcut for a task with one container.
AutomaticContainer_NoSingleShortcut(containers, container_names, td) ==
    IF Len(containers) = 0 THEN Raise("ValueError", [text |-> "No containers found in task"])
    ELSE LET essential_containers == EssentialContainers(td, container_names) IN
         IF Cardinality(essential_containers) = 1
         THEN Return(CHOOSE n \in essential_containers : TRUE)
         ELSE CannotDetermine(container_names)

\* Mutant of AutomaticContainer: picks an essential container when there are several.
AutomaticContainer_AnyEssential(containers, container_names, td) ==
    IF Len(containers) = 0 THEN Raise("ValueError", [text |-> "No containers found in task"])
    ELSE IF Len(containers) = 1 THEN Return(containers[1].name)
    ELSE LET essential_containers == EssentialContainers(td, container_names) IN
         IF Cardinality(essential_containers) >= 1
         THEN Return(CHOOSE n \in essential_containers : TRUE)
         ELSE CannotDetermine(container_names)

AutomaticContainer(containers, container_names, td) ==
    IF Len(containers) = 0 THEN Raise("ValueError", [text |-> "No containers found in task"])
    ELSE IF Len(containers) = 1 THEN Return(containers[1].name)
    ELSE LET essential_containers == EssentialContainers(td, container_names) IN
         IF Cardinality(essential_containers) = 1
         THEN Return(CHOOSE n \in essential_containers : TRUE)
         ELSE CannotDetermine(container_names)

\* Mutant of find_container_name: the requested name is not verified.
find_container_name_Unverified(t, td, specified_container) ==
    LET containers == GetOr(t, "containers", <<>>)
        container_names == ContainerNames(containers)
    IN  IF Truthy(specified_container) THEN Return(specified_container.str)
        ELSE AutomaticContainer(containers, container_names, td)

find_container_name(t, td, specified_container) ==
    LET containers == GetOr(t, "containers", <<>>)
        container_names == ContainerNames(containers)
    IN  IF Truthy(specified_container) THEN
            IF specified_container.str \notin container_names
            THEN ContainerNotFound(specified_container.str, container_names)
            ELSE Return(specified_container.str)
        ELSE AutomaticContainer(containers, container_names, td)

----------------------------------------------------------------------------
(* get_task_definition and get_tasks_for_service *)

DigitValue(c) == CASE c = "1" -> 1 [] c = "2" -> 2 [] c = "3" -> 3 [] OTHER -> 0

\* ECS describe_task_definition(taskDefinition=name) over the registered
\* revisions reg of family f (reg[r] is revision r): "family:revision" names
\* that revision, a bare "family" names the latest revision.
DescribeTaskDefinition(reg, name) ==
    IF FirstSegment(name, ":") # <<"f">> \/ reg = <<>>
    THEN Raise("ClientError", [text |-> "Unable to describe task definition"])
    ELSE IF Contains(name, ":")
    THEN LET r == DigitValue(Head(LastSegment(name, ":") \o <<"?">>)) IN
         IF r \in 1..Len(reg) THEN Return(reg[r])
         ELSE Raise("ClientError", [text |-> "Unable to describe task definition"])
    ELSE Return(reg[Len(reg)])

get_task_definition(reg, task_definition_arn) ==
    LET last == LastSegment(task_definition_arn, "/")
        task_def == IF Contains(last, ":") THEN FirstSegment(last, ":") ELSE last
    IN  DescribeTaskDefinition(reg, task_def)

\* get_tasks_for_service, given what list_tasks and describe_tasks answer
\* with: no describe_tasks call when no task ARN is listed.
get_tasks_for_service(listed, described) ==
    LET task_arns == [i \in 1..Len(listed) |-> listed[i].taskArn] IN
    IF task_arns = <<>> THEN <<>> ELSE described

----------------------------------------------------------------------------
(* Inputs of the task selector *)

\* Task ARNs: task/<cluster>/<id> and the older task/<id>.
ArnPool ==
    { <<"t", "/", "c", "/", "b">>,
      <<"t", "/", "c", "/", "a">>,
      <<"t", "/", "a", "b">>,
      <<"t", "/", "c", "/", "A">> }

StartedAtPool ==
    { Absent,
      Datetime(2, 0),
      Datetime(3, 1),
      IsoString(3, "Z"),
      IsoString(1, "+00:00"),
      BadString,
      OtherType }

\* The ARN of revision r of the task definition family f.
Digit(r) == CASE r = 1 -> "1" [] r = 2 -> "2" [] r = 3 -> "3"
RevisionArn(r) == <<"t", "d", "/", "f", ":", Digit(r)>>
FamilyArn == RevisionArn(1)

\* The namespace argparse builds for CLUSTER SERVICE [-t t] [-c c] (-s left at DEFAULT_SHELL).
Namespace(cluster, service, t, c) ==
    [cluster_name |-> cluster, service_name |-> service, task |-> t, container |-> c,
     shell |-> <<"b", "a", "s", "h">>]
ClusterArg == Str(<<"c">>)
ServiceArg == Str(<<"s">>)

SelectorTaskPool ==
    { [taskArn |-> a, taskDefinitionArn |-> FamilyArn, startedAt |-> s, containers |-> <<>>] :
        a \in ArnPool, s \in StartedAtPool }

\* describe_tasks answers with one task per task ARN: ids are pairwise distinct.
DistinctIds(ts) ==
    \A i, j \in 1..Len(ts) : i # j => TaskId(ts[i]) # TaskId(ts[j])

SelectorTaskSeqs ==
    UNION { { ts \in [1..n -> SelectorTaskPool] : DistinctIds(ts) } : n \in 0..MaxTasks }

\* -t: absent, empty, an id, an id in another case, a whole ARN, an unknown id.
TaskArgPool ==
    { None, Str(<<>>), Str(<<"a">>), Str(<<"a", "b">>), Str(<<"A">>),
      Str(<<"t", "/", "c", "/", "a">>), Str(<<"z">>) }

NoRegistry == <<>>
NotExited == None
Exit(code) == [code |-> code]

InitFindTask ==
    /\ pc = "find_task"
    /\ args \in { Namespace(ClusterArg, ServiceArg, t, None) : t \in TaskArgPool }
    /\ tasks \in { Return(ts) : ts \in SelectorTaskSeqs }
    /\ task = Unset
    /\ task_definition = Unset
    /\ container_name = Unset
    /\ registry = NoRegistry
    /\ handoff = Unset
    /\ calls = <<>>
    /\ outcome = ""
    /\ exit_code = NotExited

\* One call of find_task(tasks, args.task).
FindTaskCall ==
    /\ pc = "find_task"
    /\ task' = find_task(tasks.value, args.task)
    /\ pc' = "find_task_done"
    /\ calls' = Append(calls, "find_task")
    /\ UNCHANGED <<args, tasks, task_definition, container_name, registry, handoff, outcome, exit_code>>

NextFindTask == FindTaskCall

SpecFindTask == InitFindTask /\ [][NextFindTask]_vars

----------------------------------------------------------------------------
(* What the specification says of the task selector, stated without the     *)
(* operators that model the code                                            *)

\* seg is the trailing path segment of arn.
IsTrailingSegment(arn, seg) ==
    /\ Len(seg) <= Len(arn)
    /\ SubSeq(arn, Len(arn) - Len(seg) + 1, Len(arn)) = seg
    /\ \A i \in 1..Len(seg) : seg[i] # "/"
    /\ Len(seg) < Len(arn) => arn[Len(arn) - Len(seg)] = "/"

TrailingSegment(arn) ==
    CHOOSE k \in { SubSeq(arn, i, Len(arn)) : i \in 1..Len(arn) + 1 } : IsTrailingSegment(arn, k)

\* a sorts before b, lexicographically by code point.
LexBefore(a, b) ==
    \E k \in 0..Len(a) :
        /\ k <= Len(b)
        /\ \A i \in 1..k : a[i] = b[i]
        /\ \/ k = Len(a) /\ k < Len(b)
           \/ k < Len(a) /\ k < Len(b) /\ Ord(a[k + 1]) < Ord(b[k + 1])

\* l lists exactly the members of S, each once, in ascending order.
IsSortedListing(l, S) ==
    /\ Len(l) = Cardinality(S)
    /\ { l[i] : i \in 1..Len(l) } = S
    /\ \A i \in 1..Len(l) - 1 : LexBefore(l[i], l[i + 1])

\* text is the listing l written with ", " between its members.
RECURSIVE IsJoined(_, _)
IsJoined(text, l) ==
    IF l = <<>> THEN text = <<>>
    ELSE IF Len(l) = 1 THEN text = l[1]
    ELSE /\ Len(text) >= Len(l[1]) + 2
         /\ SubSeq(text, 1, Len(l[1])) = l[1]
         /\ text[Len(l[1]) + 1] = ","
         /\ text[Len(l[1]) + 2] = " "
         /\ IsJoined(SubSeq(text, Len(l[1]) + 3, Len(text)), Tail(l))

\* text displays the members of S in ascending order.
DisplaysSorted(text, S) ==
    \E l \in UNION { [1..n -> S] : n \in {Cardinality(S)} } :
        IsSortedListing(l, S) /\ IsJoined(text, l)

\* The start timestamp is a real one: structured, or text that parses.
HasRealStart(t) ==
    \/ t.startedAt.shape = "datetime"
    \/ t.startedAt.shape = "str" /\ t.startedAt.parses

\* The normalized start instant (UTC hours) of a task with a real timestamp.
StartInstant(t) ==
    IF t.startedAt.shape = "datetime" THEN t.startedAt.local - t.startedAt.tz
    ELSE IF t.startedAt.suffix \in {"Z", "+00:00"} THEN t.startedAt.local
    ELSE IF t.startedAt.suffix = "+01:00" THEN t.startedAt.local - 1
    ELSE t.startedAt.local

\* a started strictly later than b; a missing or unparsable timestamp is the
\* minimum and is later than nothing.
StartedLater(a, b) ==
    /\ HasRealStart(a)
    /\ HasRealStart(b) => StartInstant(a) > StartInstant(b)

\* The first task, in input order, that no task started later than.
MostRecentIndex(ts) ==
    CHOOSE i \in 1..Len(ts) :
        /\ \A j \in 1..Len(ts) : ~StartedLater(ts[j], ts[i])
        /\ \A j \in 1..(i - 1) : StartedLater(ts[i], ts[j])

Matching(ts, id) == { i \in 1..Len(ts) : IsTrailingSegment(ts[i].taskArn, id) }

FindTaskDone == pc = "find_task_done"

\* C1: with no requested id and a non-empty sequence, find_task returns the
\* task with the maximum normalized start timestamp, the first one in input
\* order among those that share the maximum.
C1_MostRecentFirstWins ==
    (FindTaskDone /\ IsNone(args.task) /\ tasks.value # <<>>)
        => task = Return(tasks.value[MostRecentIndex(tasks.value)])

\* C2: with no requested id, a sequence that mixes missing or unparsable
\* timestamps with real ones does not make find_task fail: it returns a task
\* that carries a real timestamp.
C2_MissingRanksMinimum ==
    (/\ FindTaskDone
     /\ IsNone(args.task)
     /\ \E i \in 1..Len(tasks.value) : ~HasRealStart(tasks.value[i])
     /\ \E i \in 1..Len(tasks.value) : HasRealStart(tasks.value[i]))
        => (task.kind = "return" /\ HasRealStart(task.value))

\* C3: a requested id that is the trailing segment of exactly one task's ARN
\* selects that task, whatever the start timestamps are.
C3_RequestedIdSelects ==
    (/\ FindTaskDone
     /\ ~IsNone(args.task)
     /\ args.task.str # <<>>
     /\ Cardinality(Matching(tasks.value, args.task.str)) = 1)
        => \E i \in Matching(tasks.value, args.task.str) : task = Return(tasks.value[i])

\* C3 witness: the requested task has no start timestamp while another task
\* has a real one, and the requested task is returned.
C3_Witness ==
    /\ FindTaskDone
    /\ ~IsNone(args.task)
    /\ \E i \in Matching(tasks.value, args.task.str) :
        /\ task = Return(tasks.value[i])
        /\ ~HasRealStart(tasks.value[i])
        /\ i > 1
        /\ \E j \in 1..Len(tasks.value) : HasRealStart(tasks.value[j])

\* C4: a requested id that matches no task of a non-empty sequence makes
\* find_task fail with NotFound, whose identifier list is the sorted set of
\* the trailing-segment ids of all input tasks; no task is returned.
C4_NotFoundListsSortedIds ==
    (/\ FindTaskDone
     /\ ~IsNone(args.task)
     /\ args.task.str # <<>>
     /\ tasks.value # <<>>
     /\ Matching(tasks.value, args.task.str) = {})
        => /\ task.kind = "raise"
           /\ task.exc = "ValueError"
           /\ task.msg.text = "Task not found. Available tasks:"
           /\ task.msg.requested = args.task.str
           /\ DisplaysSorted(task.msg.available,
                             { TrailingSegment(tasks.value[i].taskArn) : i \in 1..Len(tasks.value) })

\* C4 witness: tasks given out of sorted order, a whole ARN requested, and
\* several ids listed.
C4_Witness ==
    /\ FindTaskDone
    /\ ~IsNone(args.task)
    /\ Len(args.task.str) > 1
    /\ Len(tasks.value) >= 2
    /\ task.kind = "raise"
    /\ LexBefore(TrailingSegment(tasks.value[2].taskArn), TrailingSegment(tasks.value[1].taskArn))
    /\ Contains(task.msg.available, ",")

----------------------------------------------------------------------------
(* Inputs of the container selector *)

NamePool == { <<"w", "e", "b">>, <<"w">>, <<"d", "b">>, <<"a", "p", "p">> }

\* The containers of a task: container names are unique within a task.
ContainerSeqs ==
    UNION { { [i \in 1..n |-> [name |-> c[i]]] :
                c \in { d \in [1..n -> NamePool] : \A i, j \in 1..n : i # j => d[i] # d[j] } } :
            n \in 0..MaxContainers }

SelectorTasks ==
    { [taskArn |-> <<"t", "/", "c", "/", "a">>, taskDefinitionArn |-> FamilyArn,
       startedAt |-> Absent, containers |-> c] : c \in ContainerSeqs }

\* A container definition; the essential flag may be left out.
ContainerDefPool ==
    { [name |-> n, essential |-> e] : n \in NamePool, e \in BOOLEAN } \cup
    { [name |-> n] : n \in NamePool }

TaskDefinitionPool ==
    { [family |-> <<"f">>] } \cup
    { [family |-> <<"f">>, containerDefinitions |-> d] :
        d \in UNION { [1..n -> ContainerDefPool] : n \in 0..MaxDefs } }

\* -c: absent, empty, a name, a name in another case, an unknown name.
ContainerArgPool ==
    { None, Str(<<>>), Str(<<"w", "e", "b">>), Str(<<"d", "b">>), Str(<<"D", "b">>), Str(<<"z">>) }

InitFindContainer ==
    /\ pc = "find_container_name"
    /\ args \in { Namespace(ClusterArg, ServiceArg, None, c) : c \in ContainerArgPool }
    /\ \E t \in SelectorTasks : tasks = Return(<<t>>) /\ task = Return(t)
    /\ task_definition \in { Return(td) : td \in TaskDefinitionPool }
    /\ container_name = Unset
    /\ registry = NoRegistry
    /\ handoff = Unset
    /\ calls = <<>>
    /\ outcome = ""
    /\ exit_code = NotExited

\* One call of find_container_name(task, task_definition, args.container).
FindContainerCall ==
    /\ pc = "find_container_name"
    /\ container_name' = find_container_name(task.value, task_definition.value, args.container)
    /\ pc' = "find_container_name_done"
    /\ calls' = Append(calls, "find_container_name")
    /\ UNCHANGED <<args, tasks, task, task_definition, registry, handoff, outcome, exit_code>>

NextFindContainer == FindContainerCall

SpecFindContainer == InitFindContainer /\ [][NextFindContainer]_vars

----------------------------------------------------------------------------
(* What the specification says of the container selector *)

FindContainerDone == pc = "find_container_name_done"

\* available: the names of the containers of the task handed to the selector.
Available == { task.value.containers[i].name : i \in 1..Len(task.value.containers) }

\* The container definitions of the task definition handed to the selector.
Definitions ==
    IF "containerDefinitions" \in DOMAIN task_definition.value
    THEN { task_definition.value.containerDefinitions[i] :
             i \in 1..Len(task_definition.value.containerDefinitions) }
    ELSE {}

FlaggedEssential == { d.name : d \in { e \in Definitions : "essential" \in DOMAIN e /\ e.essential } }

EssentialAvailable == FlaggedEssential \cap Available

NoContainerRequested == IsNone(args.container)
ContainerRequested == ~IsNone(args.container) /\ args.container.str # <<>>

IsNotFound(r, requested, names) ==
    /\ r.kind = "raise"
    /\ r.exc = "ValueError"
    /\ r.msg.text = "Container not found in task. Available containers:"
    /\ r.msg.requested = requested
    /\ DisplaysSorted(r.msg.available, names)

IsAmbiguous(r, names) ==
    /\ r.kind = "raise"
    /\ r.exc = "ValueError"
    /\ r.msg.text = "Container name must be specified with -c"
    /\ DisplaysSorted(r.msg.available, names)

\* C5: an explicitly requested container name is returned unchanged when it is
\* one of the task's container names and fails with NotFound (the requested
\* name, the sorted available names) otherwise, whatever the essential flags
\* and the number of containers are.
C5_ExplicitRequestWins ==
    (FindContainerDone /\ ContainerRequested)
        => IF args.container.str \in Available
           THEN container_name = Return(args.container.str)
           ELSE IsNotFound(container_name, args.container.str, Available)

\* C5 witness: the requested container is returned although another, single
\* essential container would have been picked automatically.
C5_Witness ==
    /\ FindContainerDone
    /\ ContainerRequested
    /\ container_name = Return(args.container.str)
    /\ Cardinality(Available) >= 2
    /\ Cardinality(EssentialAvailable) = 1
    /\ args.container.str \notin EssentialAvailable

\* C5 witness of the failure: a requested name in another case is not found
\* and two or more names are listed.
C5_WitnessNotFound ==
    /\ FindContainerDone
    /\ ContainerRequested
    /\ container_name.kind = "raise"
    /\ Cardinality(Available) >= 2

\* C6: with no requested name, a task with exactly one container name gets
\* that name, whatever the task definition says.
C6_SingleContainerReturned ==
    (FindContainerDone /\ NoContainerRequested /\ Cardinality(Available) = 1)
        => \E n \in Available : container_name = Return(n)

\* C6 witness: the only container is flagged non-essential and a container
\* that is not running is flagged essential.
C6_Witness ==
    /\ FindContainerDone
    /\ NoContainerRequested
    /\ Cardinality(Available) = 1
    /\ container_name.kind = "return"
    /\ \E d \in Definitions : d.name \in Available /\ "essential" \in DOMAIN d /\ ~d.essential
    /\ FlaggedEssential # {}
    /\ EssentialAvailable = {}

\* C6 witness: the only container, and a task definition without container
\* definitions.
C6_WitnessNoDefinitions ==
    /\ FindContainerDone
    /\ NoContainerRequested
    /\ Cardinality(Available) = 1
    /\ container_name.kind = "return"
    /\ "containerDefinitions" \notin DOMAIN task_definition.value

\* C7: with no requested name and two or more containers, a container is
\* returned exactly when one definition name is both flagged essential and
\* present in the task, and that name is the one returned.
C7_SingleEssentialReturned ==
    (FindContainerDone /\ NoContainerRequested /\ Cardinality(Available) >= 2)
        => /\ container_name.kind = "return" <=> Cardinality(EssentialAvailable) = 1
           /\ container_name.kind = "return" => container_name.value \in EssentialAvailable

\* C7 witness: two definitions are flagged essential, one of them is not in
\* the task, and the other one is returned.
C7_Witness ==
    /\ FindContainerDone
    /\ NoContainerRequested
    /\ Cardinality(Available) >= 2
    /\ container_name.kind = "return"
    /\ Cardinality(FlaggedEssential) = 2
    /\ Cardinality(EssentialAvailable) = 1

\* C8: with no requested name and two or more containers, of which zero or
\* at least two are flagged essential, the selector fails with Ambiguous,
\* listing all available names in sorted order; it picks none.
C8_AmbiguousListsSorted ==
    (/\ FindContainerDone
     /\ NoContainerRequested
     /\ Cardinality(Available) >= 2
     /\ Cardinality(EssentialAvailable) # 1)
        => IsAmbiguous(container_name, Available)

\* C8 witness: two containers given out of order, both flagged essential.
C8_Witness ==
    /\ FindContainerDone
    /\ NoContainerRequested
    /\ Cardinality(EssentialAvailable) = 2
    /\ container_name.kind = "raise"
    /\ LexBefore(task.value.containers[2].name, task.value.containers[1].name)

\* C8 witness: three containers, none flagged essential.
C8_WitnessNoneEssential ==
    /\ FindContainerDone
    /\ NoContainerRequested
    /\ Cardinality(Available) = 3
    /\ EssentialAvailable = {}
    /\ container_name.kind = "raise"

----------------------------------------------------------------------------
(* The pipeline of main() *)

WebName == <<"w", "e", "b">>
DbName == <<"d", "b">>

\* What the service may be running: the tasks, all of one revision.
PipelineContainers == { <<[name |-> WebName]>>, <<[name |-> DbName], [name |-> WebName]>> }
PipelineArns == { <<"t", "/", "c", "/", "b">>, <<"t", "/", "c", "/", "a">>, <<"t", "/", "a", "b">> }
PipelineStartedAt == { Absent, Datetime(2, 0) }

PipelineTaskPool(r) ==
    { [taskArn |-> a, taskDefinitionArn |-> RevisionArn(r), startedAt |-> s, containers |-> c] :
        a \in PipelineArns, s \in PipelineStartedAt, c \in PipelineContainers }

PipelineTaskSeqs(r) ==
    UNION { { ts \in [1..n -> PipelineTaskPool(r)] : DistinctIds(ts) } : n \in 0..MaxFetched }

\* The registered revisions of family f.
PipelineDefinitions ==
    { <<[name |-> WebName, essential |-> TRUE], [name |-> DbName, essential |-> FALSE]>>,
      <<[name |-> WebName, essential |-> TRUE], [name |-> DbName, essential |-> TRUE]>> }

RegistryPool ==
    UNION { { [r \in 1..n |-> [family |-> <<"f">>, revision |-> r, containerDefinitions |-> d[r]]] :
                d \in [1..n -> PipelineDefinitions] } : n \in 1..MaxRevisions }

PipelineArgs ==
    { Namespace(ClusterArg, ServiceArg, t, c) :
        t \in { None, Str(<<"a">>), Str(<<"z">>) },
        c \in { None, Str(DbName), Str(<<"z">>) } }
    \cup { Namespace(None, None, None, None), Namespace(ClusterArg, None, None, None) }

Init ==
    /\ pc = "main"
    /\ args \in PipelineArgs
    /\ registry \in RegistryPool
    /\ tasks = Unset
    /\ task = Unset
    /\ task_definition = Unset
    /\ container_name = Unset
    /\ handoff = Unset
    /\ calls = <<>>
    /\ outcome = ""
    /\ exit_code = NotExited

\* The run ends: what it printed last and its exit status.
End(printed, code) ==
    /\ pc' = "exited"
    /\ outcome' = printed
    /\ exit_code' = Exit(code)

\* main() without both CLUSTER_NAME and SERVICE_NAME: the table, and return.
DisplayClustersTable ==
    /\ pc = "main"
    /\ ~(Truthy(args.cluster_name) /\ Truthy(args.service_name))
    /\ calls' = Append(calls, "display_clusters_table")
    /\ End("table", 0)
    /\ UNCHANGED <<args, tasks, task, task_definition, container_name, registry, handoff>>

\* Mutant of Except: the message is printed, without sys.exit(1).
Except_NoExit(exc) ==
    IF exc = "ClientError" THEN End("AWS Error", 0)
    ELSE IF exc = "ValueError" THEN End("Error", 0)
    ELSE End("Unexpected error", 0)

\* The except clauses of main(): the message and the exit status for an exception.
Except(exc) ==
    IF exc = "ClientError" THEN End("AWS Error", 1)
    ELSE IF exc = "ValueError" THEN End("Error", 1)
    ELSE End("Unexpected error", 1)

\* Mutant of GetTasksForService: no return when no task is fetched.
GetTasksForService_NoShortCircuit ==
    /\ pc = "main"
    /\ Truthy(args.cluster_name) /\ Truthy(args.service_name)
    /\ calls' = Append(calls, "get_tasks_for_service")
    /\ \/ tasks' = Raise("ClientError", [text |-> "request failed"])
       \/ \E r \in 1..Len(registry) : \E ts \in PipelineTaskSeqs(r) :
            tasks' = Return(get_tasks_for_service(ts, ts))
    /\ IF tasks'.kind = "raise" THEN Except(tasks'.exc)
       ELSE pc' = "find_task" /\ UNCHANGED <<outcome, exit_code>>
    /\ UNCHANGED <<args, task, task_definition, container_name, registry, handoff>>

\* tasks := get_tasks_for_service(...): a ClientError, or the tasks; with no
\* task the run ends with the no-tasks message.
GetTasksForService ==
    /\ pc = "main"
    /\ Truthy(args.cluster_name) /\ Truthy(args.service_name)
    /\ calls' = Append(calls, "get_tasks_for_service")
    /\ \/ tasks' = Raise("ClientError", [text |-> "request failed"])
       \/ \E r \in 1..Len(registry) : \E ts \in PipelineTaskSeqs(r) :
            tasks' = Return(get_tasks_for_service(ts, ts))
    /\ IF tasks'.kind = "raise" THEN Except(tasks'.exc)
       ELSE IF tasks'.value = <<>> THEN End("No running tasks found for service", 0)
       ELSE pc' = "find_task" /\ UNCHANGED <<outcome, exit_code>>
    /\ UNCHANGED <<args, task, task_definition, container_name, registry, handoff>>

\* task = find_task(tasks, args.task)
FindTask ==
    /\ pc = "find_task"
    /\ calls' = Append(calls, "find_task")
    /\ task' = find_task(tasks.value, args.task)
    /\ IF task'.kind = "raise"
       THEN Except(task'.exc)
       ELSE pc' = "get_task_definition" /\ UNCHANGED <<outcome, exit_code>>
    /\ UNCHANGED <<args, tasks, task_definition, container_name, registry, handoff>>

\* task_definition = get_task_definition(task["taskDefinitionArn"])
GetTaskDefinition ==
    /\ pc = "get_task_definition"
    /\ calls' = Append(calls, "get_task_definition")
    /\ \/ task_definition' = Raise("ClientError", [text |-> "request failed"])
       \/ task_definition' = get_task_definition(registry, task.value.taskDefinitionArn)
    /\ IF task_definition'.kind = "raise"
       THEN Except(task_definition'.exc)
       ELSE pc' = "find_container_name" /\ UNCHANGED <<outcome, exit_code>>
    /\ UNCHANGED <<args, tasks, task, container_name, registry, handoff>>

\* container_name = find_container_name(task, task_definition, args.container)
FindContainerName ==
    /\ pc = "find_container_name"
    /\ calls' = Append(calls, "find_container_name")
    /\ container_name' = find_container_name(task.value, task_definition.value, args.container)
    /\ IF container_name'.kind = "raise"
       THEN Except(container_name'.exc)
       ELSE pc' = "execute_interactive_command" /\ UNCHANGED <<outcome, exit_code>>
    /\ UNCHANGED <<args, tasks, task, task_definition, registry, handoff>>

\* The ways subprocess.run(aws_cmd, check=True) ends: the aws process exits
\* with status 0, the user interrupts it, it exits with a failing status, or
\* it cannot be started.
SubprocessEnds == { "returned", "KeyboardInterrupt", "CalledProcessError", "FileNotFoundError" }

\* Mutant of execute_interactive_command: no except KeyboardInterrupt clause.
execute_interactive_command_Uncaught(ended) ==
    IF ended = "returned" THEN Return("")
    ELSE IF ended = "CalledProcessError"
    THEN Raise("SystemExit", [text |-> "Failed to execute command", code |-> 1])
    ELSE Raise(ended, [text |-> "subprocess.run"])

\* Mutant of execute_interactive_command: the failure is printed, without sys.exit(1).
execute_interactive_command_NoExit(ended) ==
    IF ended = "returned" THEN Return("")
    ELSE IF ended = "KeyboardInterrupt" THEN Return("Command interrupted with CTRL+C")
    ELSE IF ended = "CalledProcessError" THEN Return("Failed to execute command")
    ELSE Raise(ended, [text |-> "subprocess.run"])

\* The try/except of execute_interactive_command around subprocess.run: it
\* returns after a normal end and after KeyboardInterrupt, calls sys.exit(1)
\* on CalledProcessError and lets any other exception through.
execute_interactive_command(ended) ==
    IF ended = "returned" THEN Return("")
    ELSE IF ended = "KeyboardInterrupt" THEN Return("Command interrupted with CTRL+C")
    ELSE IF ended = "CalledProcessError"
    THEN Raise("SystemExit", [text |-> "Failed to execute command", code |-> 1])
    ELSE Raise(ended, [text |-> "subprocess.run"])

\* How main() ends after execute_interactive_command produced r: SystemExit
\* is no Exception and passes the except clauses.
AfterExec(r) ==
    IF r.kind = "return" THEN End(r.value, 0)
    ELSE IF r.exc = "SystemExit" THEN End(r.msg.text, r.msg.code)
    ELSE Except(r.exc)

\* Mutant of ExecuteInteractiveCommand: hands off the id of the first fetched task.
ExecuteInteractiveCommand_FirstTask ==
    /\ pc = "execute_interactive_command"
    /\ calls' = Append(calls, "execute_interactive_command")
    /\ \E ended \in SubprocessEnds :
        /\ handoff' = [cluster |-> args.cluster_name.str, task_id |-> TaskId(tasks.value[1]),
                       container |-> container_name.value, command |-> args.shell,
                       ended |-> ended]
        /\ AfterExec(execute_interactive_command(ended))
    /\ UNCHANGED <<args, tasks, task, task_definition, container_name, registry>>

\* execute_interactive_command(cluster, task_id, container_name, shell), and
\* the end of main() after it.
ExecuteInteractiveCommand ==
    /\ pc = "execute_interactive_command"
    /\ calls' = Append(calls, "execute_interactive_command")
    /\ \E ended \in SubprocessEnds :
        /\ handoff' = [cluster |-> args.cluster_name.str, task_id |-> TaskId(task.value),
                       container |-> container_name.value, command |-> args.shell,
                       ended |-> ended]
        /\ AfterExec(execute_interactive_command(ended))
    /\ UNCHANGED <<args, tasks, task, task_definition, container_name, registry>>

Next ==
    \/ DisplayClustersTable
    \/ GetTasksForService
    \/ FindTask
    \/ GetTaskDefinition
    \/ FindContainerName
    \/ ExecuteInteractiveCommand

Spec == Init /\ [][Next]_vars

----------------------------------------------------------------------------
(* What the specification says of the pipeline *)

Exited == pc = "exited"
PipelineEntered == calls # <<>> /\ calls[1] = "get_tasks_for_service"
HandedOff == handoff # Unset
FetchedNothing == tasks.kind = "return" /\ tasks.value = <<>>

EndedWithError == exit_code = Exit(1) /\ outcome \in {"AWS Error", "Error", "Unexpected error"}
EndedWithNoTasks == exit_code = Exit(0) /\ outcome = "No running tasks found for service"

\* C9: a run that reaches the exec handoff hands off a task of the fetched
\* sequence and the name of a container of that same task; every other run of
\* the pipeline ends with an error or the no-tasks outcome and hands nothing
\* off.
C9_HandoffIsFetchedTaskAndItsContainer ==
    /\ HandedOff =>
        /\ tasks.kind = "return"
        /\ \E i \in 1..Len(tasks.value) :
            /\ IsTrailingSegment(tasks.value[i].taskArn, handoff.task_id)
            /\ \E k \in 1..Len(tasks.value[i].containers) :
                 tasks.value[i].containers[k].name = handoff.container
    /\ (Exited /\ PipelineEntered /\ ~HandedOff) => (EndedWithError \/ EndedWithNoTasks)

\* C9 witness: two tasks with different containers are fetched, the second
\* one is handed off with a container the first one does not have.
C9_Witness ==
    /\ HandedOff
    /\ Len(tasks.value) = 2
    /\ IsTrailingSegment(tasks.value[2].taskArn, handoff.task_id)
    /\ \A k \in 1..Len(tasks.value[1].containers) :
         tasks.value[1].containers[k].name # handoff.container

\* C10: when the task fetch returns an empty sequence the run ends with the
\* no-tasks outcome and exit status 0, and neither selector, nor the
\* task-definition fetch, nor the exec handoff is invoked.
C10_EmptyFetchShortCircuits ==
    FetchedNothing =>
        /\ Exited
        /\ EndedWithNoTasks
        /\ calls = <<"get_tasks_for_service">>
        /\ task = Unset /\ task_definition = Unset /\ container_name = Unset /\ ~HandedOff

\* C10 witness: the fetch returned no task although a task and a container
\* were requested.
C10_Witness ==
    /\ FetchedNothing
    /\ Exited
    /\ ~IsNone(args.task)
    /\ ~IsNone(args.container)

\* The steps of the pipeline, in the order main() calls them.
PipelineOrder ==
    << "get_tasks_for_service", "find_task", "get_task_definition",
       "find_container_name", "execute_interactive_command" >>

SelectorFailed == task.kind = "raise" \/ container_name.kind = "raise"

\* C11: the steps run in the order fetch tasks, select task, fetch task
\* definition, select container, exec handoff, each at most once; a failure
\* raised by a selector ends the run with a non-zero exit, and no step (the
\* exec handoff in particular) is invoked after it or again.
C11_SequentialNoRetry ==
    /\ PipelineEntered =>
        /\ Len(calls) <= Len(PipelineOrder)
        /\ calls = SubSeq(PipelineOrder, 1, Len(calls))
    /\ task.kind = "raise" =>
        /\ Exited /\ exit_code # NotExited /\ exit_code.code # 0
        /\ calls = SubSeq(PipelineOrder, 1, 2)
        /\ task_definition = Unset /\ container_name = Unset /\ ~HandedOff
    /\ container_name.kind = "raise" =>
        /\ Exited /\ exit_code # NotExited /\ exit_code.code # 0
        /\ calls = SubSeq(PipelineOrder, 1, 4)
        /\ ~HandedOff

\* C11 witness: the container selector failed after the three steps before
\* it had run, and the run has ended.
C11_Witness ==
    /\ container_name.kind = "raise"
    /\ Exited
    /\ Len(calls) = 4

\* C11 witness: a run that went through all five steps.
C11_WitnessAllSteps == Exited /\ calls = PipelineOrder

\* C12: an interruption of the blocking exec handoff ends the program with a
\* non-error exit and is not reported as a failure; a failing exit of the
\* exec collaborator ends the program with a non-zero exit.
C12_InterruptIsCleanFailureIsNot ==
    HandedOff =>
        /\ handoff.ended = "KeyboardInterrupt" =>
            (Exited /\ exit_code = Exit(0) /\ ~EndedWithError
                /\ outcome = "Command interrupted with CTRL+C")
        /\ handoff.ended = "CalledProcessError" =>
            (Exited /\ exit_code # NotExited /\ exit_code.code # 0)

\* C12 witness: the handoff was interrupted and the run has ended.
C12_Witness == HandedOff /\ handoff.ended = "KeyboardInterrupt" /\ Exited

\* C12 witness: the exec collaborator exited with a failing status.
C12_WitnessFailure == HandedOff /\ handoff.ended = "CalledProcessError" /\ Exited

\* C13: the task definition given to the container selector is the one the
\* selected task's taskDefinitionArn names: the same family and the revision
\* the task is running, also when the family has a newer revision.
C13_DefinitionIsTheTasksRevision ==
    (task.kind = "return" /\ task_definition.kind = "return")
        => \E r \in 1..Len(registry) :
            /\ task.value.taskDefinitionArn = RevisionArn(r)
            /\ task_definition.value = registry[r]

----------------------------------------------------------------------------
(* Empty requests: both selectors, called with -t "" or -c "" or without *)

InitEmptyRequest ==
    \/ InitFindTask /\ args.task \in { None, Str(<<>>) }
    \/ InitFindContainer /\ args.container \in { None, Str(<<>>) }

NextEmptyRequest ==
    \/ FindTaskCall
    \/ FindContainerCall

SpecEmptyRequest == InitEmptyRequest /\ [][NextEmptyRequest]_vars

EmptyTaskRequested == FindTaskDone /\ ~IsNone(args.task) /\ args.task.str = <<>>
EmptyContainerRequested == FindContainerDone /\ ~IsNone(args.container) /\ args.container.str = <<>>

\* C14: an empty requested task id or container name is handled as an absent
\* one: find_task does what it does without a request and, when it returns,
\* returns the most recent task; find_container_name does what it does
\* without a request, returning the single container or the single essential
\* one; neither fails with the requested name not found.
C14_EmptyRequestIsAbsent ==
    /\ EmptyTaskRequested =>
        /\ task = find_task(tasks.value, None)
        /\ task.kind = "return" => task = Return(tasks.value[MostRecentIndex(tasks.value)])
        /\ task.kind = "raise" => task.msg.text # "Task not found. Available tasks:"
    /\ EmptyContainerRequested =>
        /\ container_name = find_container_name(task.value, task_definition.value, None)
        /\ Cardinality(Available) = 1 => \E n \in Available : container_name = Return(n)
        /\ Cardinality(Available) >= 2 =>
            /\ container_name.kind = "return" <=> Cardinality(EssentialAvailable) = 1
            /\ container_name.kind = "return" => container_name.value \in EssentialAvailable
        /\ container_name.kind = "raise" =>
            container_name.msg.text # "Container not found in task. Available containers:"

\* C14 witness: -t "" with several tasks, and a task that is not the first
\* one is returned as the most recent.
C14_Witness ==
    /\ EmptyTaskRequested
    /\ Len(tasks.value) >= 2
    /\ task.kind = "return"
    /\ task # Return(tasks.value[1])

\* C14 witness: -c "" with two containers, and the single essential one is returned.
C14_WitnessContainer ==
    /\ EmptyContainerRequested
    /\ Cardinality(Available) >= 2
    /\ container_name.kind = "return"

====
